---------------------------- MODULE Spec2Model ----------------------------
(***************************************************************************)
(* Model of src/src/camera.rs: Camera, CameraUniform and CameraController. *)
(*                                                                         *)
(* Every scalar of the program is an f32.  The model keeps the IEEE-754    *)
(* binary32 value as its three fields [s, e, f] (sign, biased exponent,    *)
(* fraction) and computes +, -, *, /, sqrt with round-to-nearest-even, so  *)
(* that an equality between two computed poses is decided by the bits the  *)
(* program would hold, not by real-number algebra.                         *)
(***************************************************************************)
EXTENDS Integers, Sequences, FiniteSets, TLC

(***************************************************************************)
(* binary32                                                                *)
(***************************************************************************)
FracBits == 23
ExpMax == 255
ExpBias == 150

Hidden == 2^FracBits

F32(s, e, f) == [s |-> s, e |-> e, f |-> f]

IsNaN(a) == a.e = ExpMax /\ a.f # 0
IsInf(a) == a.e = ExpMax /\ a.f = 0
IsZero(a) == a.e = 0 /\ a.f = 0

NaN == F32(0, ExpMax, 2^22)
Inf(s) == F32(s, ExpMax, 0)
Zero(s) == F32(s, 0, 0)

RECURSIVE BitLen(_)
BitLen(m) == IF m = 0 THEN 0 ELSE 1 + BitLen(m \div 2)

\* finite non-zero a  =  (-1)^a.s * Mant(a) * 2^Expo(a), Mant(a) in [2^23, 2^24)
RawMant(a) == IF a.e = 0 THEN a.f ELSE Hidden + a.f
RawExpo(a) == IF a.e = 0 THEN 1 - ExpBias ELSE a.e - ExpBias
Lead(a) == IF a.e # 0 THEN 0 ELSE 24 - BitLen(a.f)
Mant(a) == RawMant(a) * 2^Lead(a)
Expo(a) == RawExpo(a) - Lead(a)

\* The f32 nearest to (-1)^s * m * 2^x, ties to even.  The lowest bit of m
\* may stand for a non-zero tail below it (a sticky bit); callers that set it
\* pass m of at least 26 bits, so that it never reaches the kept bits.
Width(m) ==
    IF m >= 2^27 THEN BitLen(m \div 2^27) + 27
    ELSE IF m >= 2^26 THEN 27
    ELSE IF m >= 2^25 THEN 26
    ELSE BitLen(m)

\* the bits to drop from an n-bit m at exponent x: down to 24 bits, or for a
\* subnormal result down to the bit of weight 2^-149
DropBits(n, x) ==
    IF x + n - 24 < 1 - ExpBias THEN (1 - ExpBias) - x ELSE n - 24

\* the kept bits q <= 2^24 at exponent x as an f32
Pack(s, q, x) ==
    IF q = 2 * Hidden
    THEN (IF x + 1 + ExpBias >= ExpMax THEN Inf(s)
          ELSE F32(s, x + 1 + ExpBias, 0))
    ELSE IF q < Hidden THEN F32(s, 0, q)
    ELSE IF x + ExpBias >= ExpMax THEN Inf(s)
    ELSE F32(s, x + ExpBias, q - Hidden)

\* q0 and the dropped bits r, against half a unit of the last kept place
RoundEven(q0, r, half) ==
    IF r > half \/ (r = half /\ q0 % 2 = 1) THEN q0 + 1 ELSE q0

RoundShift(s, m, x, n, sh) ==
    IF sh > n + 1 THEN Zero(s)
    ELSE IF sh > 0
    THEN Pack(s, RoundEven(m \div 2^sh, m % 2^sh, 2^(sh - 1)), x + sh)
    ELSE Pack(s, m * 2^(-sh), x + sh)

RoundPack(s, m, x) ==
    IF m = 0 THEN Zero(s)
    ELSE RoundShift(s, m, x, Width(m), DropBits(Width(m), x))

Jam(m, sticky) == IF sticky /\ m % 2 = 0 THEN m + 1 ELSE m

FNeg(a) == F32(1 - a.s, a.e, a.f)

\* mb0 shifted right by d places, the bits shifted out kept as a sticky bit
Align(mb0, d) ==
    IF d > 27 THEN 1 ELSE Jam(mb0 \div 2^d, mb0 % 2^d # 0)

\* (-1)^sa * ma + (-1)^sb * mb at exponent x
AddMant(sa, ma, sb, mb, x) ==
    IF sa = sb THEN RoundPack(sa, ma + mb, x)
    ELSE IF ma > mb THEN RoundPack(sa, ma - mb, x)
    ELSE IF ma < mb THEN RoundPack(sb, mb - ma, x)
    ELSE Zero(0)

\* a + b for finite non-zero a, b with Expo(a) >= Expo(b)
AddOrdered(a, b) ==
    AddMant(a.s, Mant(a) * 8, b.s, Align(Mant(b) * 8, Expo(a) - Expo(b)),
            Expo(a) - 3)

FAdd(a, b) ==
    IF IsNaN(a) \/ IsNaN(b) THEN NaN
    ELSE IF IsInf(a) THEN (IF IsInf(b) /\ a.s # b.s THEN NaN ELSE a)
    ELSE IF IsInf(b) THEN b
    ELSE IF IsZero(a) /\ IsZero(b) THEN (IF a.s = b.s THEN a ELSE Zero(0))
    ELSE IF IsZero(a) THEN b
    ELSE IF IsZero(b) THEN a
    ELSE IF Expo(a) >= Expo(b) THEN AddOrdered(a, b)
    ELSE AddOrdered(b, a)

FSub(a, b) == FAdd(a, FNeg(b))

SignXor(a, b) == IF a.s = b.s THEN 0 ELSE 1

\* the 48-bit product of two 24-bit significands, reduced to 28 bits + sticky
MulMant(ma, mb) ==
    LET a1 == ma \div 4096
        a0 == ma % 4096
        b1 == mb \div 4096
        b0 == mb % 4096
        mid == a1 * b0 + a0 * b1
        losum == (mid % 4096) * 4096 + a0 * b0
        lo == losum % 2^24
        hi == a1 * b1 + mid \div 4096 + losum \div 2^24
    IN  Jam(hi * 16 + lo \div 2^20, lo % 2^20 # 0)

FMul(a, b) ==
    IF IsNaN(a) \/ IsNaN(b) THEN NaN
    ELSE IF IsInf(a) \/ IsInf(b)
         THEN (IF IsZero(a) \/ IsZero(b) THEN NaN ELSE Inf(SignXor(a, b)))
    ELSE IF IsZero(a) \/ IsZero(b) THEN Zero(SignXor(a, b))
    ELSE RoundPack(SignXor(a, b), MulMant(Mant(a), Mant(b)),
                   Expo(a) + Expo(b) + 20)

\* n quotient bits of r / d by long division: <<quotient, remainder>>
RECURSIVE LongDiv(_, _, _, _)
LongDiv(r, d, n, q) ==
    IF n = 0 THEN <<q, r>>
    ELSE IF r >= d THEN LongDiv(2 * (r - d), d, n - 1, 2 * q + 1)
    ELSE LongDiv(2 * r, d, n - 1, 2 * q)

FDiv(a, b) ==
    IF IsNaN(a) \/ IsNaN(b) THEN NaN
    ELSE IF IsInf(a) THEN (IF IsInf(b) THEN NaN ELSE Inf(SignXor(a, b)))
    ELSE IF IsInf(b) THEN Zero(SignXor(a, b))
    ELSE IF IsZero(b) THEN (IF IsZero(a) THEN NaN ELSE Inf(SignXor(a, b)))
    ELSE IF IsZero(a) THEN Zero(SignXor(a, b))
    ELSE LET qr == LongDiv(Mant(a), Mant(b), 27, 0)
         IN  RoundPack(SignXor(a, b), Jam(qr[1], qr[2] # 0),
                       Expo(a) - Expo(b) - 26)

\* square root of m * 4^k digit by digit: i counts the bit pairs still to
\* come, the top ones taken from m and the last k ones zero
RECURSIVE SqrtStep(_, _, _, _, _)
SqrtStep(m, k, i, root, rem) ==
    IF i = 0 THEN <<root, rem>>
    ELSE LET pair == IF i > k THEN (m \div 4^(i - 1 - k)) % 4 ELSE 0
             r4 == rem * 4 + pair
             t == 4 * root + 1
         IN  IF r4 >= t THEN SqrtStep(m, k, i - 1, 2 * root + 1, r4 - t)
             ELSE SqrtStep(m, k, i - 1, 2 * root, r4)

FSqrt(a) ==
    IF IsNaN(a) THEN NaN
    ELSE IF IsZero(a) THEN a
    ELSE IF a.s = 1 THEN NaN
    ELSE IF IsInf(a) THEN a
    ELSE LET odd == Expo(a) % 2 = 1
             m == IF odd THEN 2 * Mant(a) ELSE Mant(a)
             x == IF odd THEN Expo(a) - 1 ELSE Expo(a)
             rr == SqrtStep(m, 14, 27, 0, 0)
         IN  RoundPack(0, Jam(rr[1], rr[2] # 0), (x \div 2) - 14)

\* IEEE comparisons: false when either side is NaN, -0 = +0
Key(a) == IF a.s = 1 THEN 0 - (a.e * Hidden + a.f) ELSE a.e * Hidden + a.f
FEq(a, b) == ~IsNaN(a) /\ ~IsNaN(b) /\ Key(a) = Key(b)
FGt(a, b) == ~IsNaN(a) /\ ~IsNaN(b) /\ Key(a) > Key(b)
FLe(a, b) == ~IsNaN(a) /\ ~IsNaN(b) /\ Key(a) <= Key(b)


(***************************************************************************)
(* cgmath: Vector3 / Point3 / Quaternion / Matrix4 over f32                *)
(***************************************************************************)
Zero32 == F32(0, 0, 0)
One == F32(0, 127, 0)
Two == F32(0, 128, 0)
Half == F32(0, 126, 0)
\* f64::consts::PI / 180.0 cast to f32 (0x3c8efa35)
PiOver180 == F32(0, 121, 981557)

Vec3(x, y, z) == [x |-> x, y |-> y, z |-> z]
Vec4(x, y, z, w) == [x |-> x, y |-> y, z |-> z, w |-> w]

VAdd(a, b) == Vec3(FAdd(a.x, b.x), FAdd(a.y, b.y), FAdd(a.z, b.z))
VSub(a, b) == Vec3(FSub(a.x, b.x), FSub(a.y, b.y), FSub(a.z, b.z))
VScale(a, k) == Vec3(FMul(a.x, k), FMul(a.y, k), FMul(a.z, k))
VNeg(a) == Vec3(FNeg(a.x), FNeg(a.y), FNeg(a.z))

dot(a, b) == FAdd(FAdd(FMul(a.x, b.x), FMul(a.y, b.y)), FMul(a.z, b.z))
cross(a, b) ==
    Vec3(FSub(FMul(a.y, b.z), FMul(a.z, b.y)),
         FSub(FMul(a.z, b.x), FMul(a.x, b.z)),
         FSub(FMul(a.x, b.y), FMul(a.y, b.x)))
magnitude(a) == FSqrt(dot(a, a))
normalize(a) == VScale(a, FDiv(One, magnitude(a)))

\* f32::sin_cos and f32::tan at the angles the bounded inputs produce: the
\* f32 nearest to the exact value; sin and tan are odd, cos is even
FAbs(a) == F32(0, a.e, a.f)
SinPos(a) ==
    CASE a = F32(0, 117, 981557) -> F32(0, 117, 981555)
      [] a = F32(0, 118, 981557) -> F32(0, 118, 981550)
sin(a) == IF a.s = 1 THEN FNeg(SinPos(FAbs(a))) ELSE SinPos(a)
cos(a) ==
    CASE FAbs(a) = F32(0, 117, 981557) -> F32(0, 126, 8388598)
      [] FAbs(a) = F32(0, 118, 981557) -> F32(0, 126, 8388568)
tan(a) ==
    CASE a = F32(0, 125, 4788187) -> F32(0, 125, 5510093)

\* Rad::from(Deg(d))
DegToRad(d) == FMul(d, PiOver180)

\* Quaternion::from_axis_angle(axis, Deg(deg)): [s, v]
from_axis_angle(axis, deg) ==
    LET h == FMul(DegToRad(deg), Half)
    IN  [s |-> cos(h), v |-> VScale(axis, sin(h))]

\* Quaternion * Vector3
rotate_vector(q, vec) ==
    LET tmp == VAdd(cross(q.v, vec), VScale(vec, q.s))
    IN  VAdd(VScale(cross(q.v, tmp), Two), vec)

Col(m, j) == m[j]
V4Scale(a, k) == Vec4(FMul(a.x, k), FMul(a.y, k), FMul(a.z, k), FMul(a.w, k))
V4Add(a, b) ==
    Vec4(FAdd(a.x, b.x), FAdd(a.y, b.y), FAdd(a.z, b.z), FAdd(a.w, b.w))

\* Matrix4 * Matrix4, column-major: column j of the product is
\* a*r.x + b*r.y + c*r.z + d*r.w for the columns a..d of lhs, r column j of rhs
MatMulCol(lhs, r) ==
    V4Add(V4Add(V4Add(V4Scale(lhs[1], r.x), V4Scale(lhs[2], r.y)),
                V4Scale(lhs[3], r.z)),
          V4Scale(lhs[4], r.w))
MatMul(lhs, rhs) ==
    <<MatMulCol(lhs, rhs[1]), MatMulCol(lhs, rhs[2]), MatMulCol(lhs, rhs[3]),
      MatMulCol(lhs, rhs[4])>>

Identity ==
    <<Vec4(One, Zero32, Zero32, Zero32), Vec4(Zero32, One, Zero32, Zero32),
      Vec4(Zero32, Zero32, One, Zero32), Vec4(Zero32, Zero32, Zero32, One)>>

OPENGL_TO_WGPU_MATRIX ==
    <<Vec4(One, Zero32, Zero32, Zero32), Vec4(Zero32, One, Zero32, Zero32),
      Vec4(Zero32, Zero32, Half, Zero32), Vec4(Zero32, Zero32, Half, One)>>

\* Matrix4::look_at_rh(eye, center, up)
look_at_rh(eye, center, up) ==
    LET f == normalize(VSub(center, eye))
        s == normalize(cross(f, up))
        u == cross(s, f)
    IN  <<Vec4(s.x, u.x, FNeg(f.x), Zero32),
          Vec4(s.y, u.y, FNeg(f.y), Zero32),
          Vec4(s.z, u.z, FNeg(f.z), Zero32),
          Vec4(FNeg(dot(eye, s)), FNeg(dot(eye, u)), dot(eye, f), One)>>

\* cgmath::perspective(Deg(fovy), aspect, near, far)
perspective(fovy, aspect, near, far) ==
    LET f == FDiv(One, tan(FDiv(DegToRad(fovy), Two)))
    IN  <<Vec4(FDiv(f, aspect), Zero32, Zero32, Zero32),
          Vec4(Zero32, f, Zero32, Zero32),
          Vec4(Zero32, Zero32, FDiv(FAdd(far, near), FSub(near, far)),
               FNeg(One)),
          Vec4(Zero32, Zero32,
               FDiv(FMul(FMul(Two, far), near), FSub(near, far)), Zero32)>>

\* Matrix4<f32> -> [[f32; 4]; 4]
IntoCol(c) == <<c.x, c.y, c.z, c.w>>
Into(m) == <<IntoCol(m[1]), IntoCol(m[2]), IntoCol(m[3]), IntoCol(m[4])>>


(***************************************************************************)
(* Bounds and bounded inputs                                               *)
(***************************************************************************)
MaxKeys == 2
MaxFrames == 2
MaxUploads == 1

\* winit KeyCode: the ten codes handle_key matches, and two it does not
RecognizedKeys ==
    {"KeyW", "KeyS", "KeyA", "KeyD", "ArrowLeft", "ArrowRight", "ArrowUp",
     "ArrowDown", "KeyE", "KeyQ"}
OtherKeys == {"Space", "Escape"}
KeyCode == RecognizedKeys \cup OtherKeys

F0_125 == F32(0, 124, 0)
F0_25 == F32(0, 125, 0)
F45 == F32(0, 132, 3407872)
F0_1 == F32(0, 123, 5033165)
F100 == F32(0, 133, 4718592)
ZeroVec == Vec3(Zero32, Zero32, Zero32)

Speeds == {F0_125, F0_25}

\* <<eye, target>> with |target - eye| = sqrt(4.5), 0.25 and 0.125: above
\* both speeds, equal to one, and equal to or below the other
PoseFar == <<Vec3(Two, Zero32, Half), Vec3(Zero32, Half, Zero32)>>
PoseNear == <<Vec3(Zero32, Zero32, F0_25), ZeroVec>>
PoseNearer == <<Vec3(Zero32, Zero32, F0_125), ZeroVec>>
\* a target off the axes, at (5, 1, 3), seen from (2, 0, 0.5)
PoseAway ==
    <<Vec3(Two, Zero32, Half),
      Vec3(F32(0, 129, 2097152), One, F32(0, 128, 4194304))>>
\* a target one unit in the last place away from the eye: (2 - 2^-23, 0, 0)
\* seen from (2, 0, 0)
PoseEdge ==
    <<Vec3(Two, Zero32, Zero32), Vec3(F32(0, 127, 8388607), Zero32, Zero32)>>
\* the target (0.5, 0, 0) seen from (0.4, 0, 0.075): |target - eye| rounds to
\* 0.125, the smaller speed
PoseBrink ==
    <<Vec3(F32(0, 125, 5033165), Zero32, F32(0, 123, 1677722)),
      Vec3(Half, Zero32, Zero32)>>
Poses == {PoseFar, PoseNear, PoseNearer, PoseAway, PoseEdge, PoseBrink}

(***************************************************************************)
(* Camera, CameraUniform, CameraController                                 *)
(***************************************************************************)
\* history records the events themselves: the speed given to new() and, for
\* each flag, is_pressed of the latest handle_key event for its key (FALSE
\* while there has been none)
VARIABLES camera, camera_uniform, controller, ret, keys, frames, uploads,
          history

vars ==
    <<camera, camera_uniform, controller, ret, keys, frames, uploads, history>>

NewCamera(pose) ==
    [eye |-> pose[1], target |-> pose[2], up |-> Vec3(Zero32, One, Zero32),
     aspect |-> One, fovy |-> F45, znear |-> F0_1, zfar |-> F100]

\* the three factors multiplied in the opposite order
build_view_projection_matrix_reversed(self) ==
    LET view == look_at_rh(self.eye, self.target, self.up)
        proj == perspective(self.fovy, self.aspect, self.znear, self.zfar)
    IN  MatMul(MatMul(view, proj), OPENGL_TO_WGPU_MATRIX)

build_view_projection_matrix(self) ==
    LET view == look_at_rh(self.eye, self.target, self.up)
        proj == perspective(self.fovy, self.aspect, self.znear, self.zfar)
    IN  MatMul(MatMul(OPENGL_TO_WGPU_MATRIX, proj), view)

CameraUniformNew == [view_proj |-> Into(Identity)]

\* an upload that writes only into a uniform that still holds the identity
update_view_proj_once(self, cam) ==
    IF self.view_proj = Into(Identity)
    THEN [self EXCEPT !.view_proj = Into(build_view_projection_matrix(cam))]
    ELSE self

update_view_proj(self, cam) ==
    [self EXCEPT !.view_proj = Into(build_view_projection_matrix(cam))]

CameraControllerNew(speed) ==
    [speed |-> speed,
     is_forward_pressed |-> FALSE,
     is_backward_pressed |-> FALSE,
     is_left_pressed |-> FALSE,
     is_right_pressed |-> FALSE,
     is_left_rotate_pressed |-> FALSE,
     is_right_rotate_pressed |-> FALSE,
     is_up_rotate_pressed |-> FALSE,
     is_down_rotate_pressed |-> FALSE,
     is_up_pressed |-> FALSE,
     is_down_pressed |-> FALSE]

\* the arms of the match in handle_key: the field a key code sets, "" for
\* the codes of the catch-all arm
KeyFlag(code) ==
    CASE code = "KeyW" -> "is_forward_pressed"
      [] code = "KeyS" -> "is_backward_pressed"
      [] code = "KeyA" -> "is_left_pressed"
      [] code = "KeyD" -> "is_right_pressed"
      [] code = "ArrowLeft" -> "is_left_rotate_pressed"
      [] code = "ArrowRight" -> "is_right_rotate_pressed"
      [] code = "ArrowUp" -> "is_up_rotate_pressed"
      [] code = "ArrowDown" -> "is_down_rotate_pressed"
      [] code = "KeyE" -> "is_up_pressed"
      [] code = "KeyQ" -> "is_down_pressed"
      [] OTHER -> ""

\* a catch-all arm that also reports the key as handled
handle_key_always_true(self, code, is_pressed) ==
    IF KeyFlag(code) = "" THEN [self |-> self, result |-> TRUE]
    ELSE [self |-> [self EXCEPT ![KeyFlag(code)] = is_pressed], result |-> TRUE]

\* a key event that drops every other held key
handle_key_exclusive(self, code, is_pressed) ==
    IF KeyFlag(code) = "" THEN [self |-> self, result |-> FALSE]
    ELSE [self |-> [[f \in DOMAIN self |->
                        IF f = "speed" THEN self.speed ELSE FALSE]
                    EXCEPT ![KeyFlag(code)] = is_pressed],
          result |-> TRUE]

\* a press that toggles the flag instead of setting it
handle_key_toggle(self, code, is_pressed) ==
    IF KeyFlag(code) = "" THEN [self |-> self, result |-> FALSE]
    ELSE [self |-> [self EXCEPT ![KeyFlag(code)] =
                        IF is_pressed THEN ~self[KeyFlag(code)] ELSE FALSE],
          result |-> TRUE]

\* a release that is ignored
handle_key_sticky(self, code, is_pressed) ==
    IF KeyFlag(code) = "" THEN [self |-> self, result |-> FALSE]
    ELSE [self |-> [self EXCEPT ![KeyFlag(code)] =
                        self[KeyFlag(code)] \/ is_pressed],
          result |-> TRUE]

\* handle_key: [self |-> the controller afterwards, result |-> the bool returned]
handle_key(self, code, is_pressed) ==
    IF KeyFlag(code) = "" THEN [self |-> self, result |-> FALSE]
    ELSE [self |-> [self EXCEPT ![KeyFlag(code)] = is_pressed], result |-> TRUE]

\* f32 literal 0.05 (0x3d4ccccd)
speed_limit == F32(0, 122, 5033165)

\* the ten `if` statements of update_camera, in source order
Branches ==
    <<"forward", "backward", "left", "right", "left_rotate", "right_rotate",
      "up_rotate", "down_rotate", "up", "down">>

Pressed(self, b) ==
    CASE b = "forward" -> self.is_forward_pressed
      [] b = "backward" -> self.is_backward_pressed
      [] b = "left" -> self.is_left_pressed
      [] b = "right" -> self.is_right_pressed
      [] b = "left_rotate" -> self.is_left_rotate_pressed
      [] b = "right_rotate" -> self.is_right_rotate_pressed
      [] b = "up_rotate" -> self.is_up_rotate_pressed
      [] b = "down_rotate" -> self.is_down_rotate_pressed
      [] b = "up" -> self.is_up_pressed
      [] b = "down" -> self.is_down_pressed

\* the forward condition without its flag
Guard_no_flag(self, forward_mag, b) ==
    IF b = "forward" THEN FGt(forward_mag, self.speed) ELSE Pressed(self, b)

\* the forward condition with >= for >
Guard_ge(self, forward_mag, b) ==
    IF b = "forward"
    THEN self.is_forward_pressed /\ FLe(self.speed, forward_mag)
    ELSE Pressed(self, b)

\* the magnitude condition of forward put on backward as well
Guard_symmetric(self, forward_mag, b) ==
    IF b \in {"forward", "backward"}
    THEN Pressed(self, b) /\ FGt(forward_mag, self.speed)
    ELSE Pressed(self, b)

\* the condition of branch b, for the forward vector of magnitude forward_mag
\* captured at the start of the call
Guard(self, forward_mag, b) ==
    IF b = "forward"
    THEN self.is_forward_pressed /\ FGt(forward_mag, self.speed)
    ELSE Pressed(self, b)

\* a move that forgets the target
MoveAdd_eye_only(cam, d) == [cam EXCEPT !.eye = VAdd(cam.eye, d)]

\* camera.eye += d; camera.target += d
MoveAdd(cam, d) ==
    [cam EXCEPT !.eye = VAdd(cam.eye, d), !.target = VAdd(cam.target, d)]
\* -= written as +=
MoveSub_adds(cam, d) ==
    [cam EXCEPT !.eye = VAdd(cam.eye, d), !.target = VAdd(cam.target, d)]

\* camera.eye -= d; camera.target -= d
MoveSub(cam, d) ==
    [cam EXCEPT !.eye = VSub(cam.eye, d), !.target = VSub(cam.target, d)]
\* a rotation that pivots about the target
Rotate_about_target(cam, axis, deg, forward) ==
    [cam EXCEPT !.target =
        VAdd(cam.target, rotate_vector(from_axis_angle(axis, deg), forward))]

\* a rotation that swings the eye around the target
Rotate_orbit(cam, axis, deg, forward) ==
    [cam EXCEPT !.eye =
        VSub(cam.target, rotate_vector(from_axis_angle(axis, deg), forward))]

\* a rotation of the forward vector of the moment instead of the captured one
Rotate_compounding(cam, axis, deg, forward) ==
    [cam EXCEPT !.target =
        VAdd(cam.eye, rotate_vector(from_axis_angle(axis, deg),
                                    VSub(cam.target, cam.eye)))]

\* camera.target = camera.eye + rotation.rotate_vector(forward)
Rotate(cam, axis, deg, forward) ==
    [cam EXCEPT !.target =
        VAdd(cam.eye, rotate_vector(from_axis_angle(axis, deg), forward))]

\* the body of branch b, applied to the camera as the earlier branches left it
Body(self, forward, forward_norm, cam, b) ==
    LET right == cross(forward_norm, cam.up)
    IN  CASE b = "forward" ->
               MoveAdd(cam, VScale(VScale(forward_norm, self.speed), speed_limit))
          [] b = "backward" ->
               MoveSub(cam, VScale(VScale(forward_norm, self.speed), speed_limit))
          [] b = "left" ->
               MoveSub(cam, VScale(VScale(right, self.speed), speed_limit))
          [] b = "right" ->
               MoveAdd(cam, VScale(VScale(right, self.speed), speed_limit))
          [] b = "left_rotate" -> Rotate(cam, cam.up, self.speed, forward)
          [] b = "right_rotate" ->
               Rotate(cam, cam.up, FNeg(self.speed), forward)
          [] b = "up_rotate" -> Rotate(cam, right, self.speed, forward)
          [] b = "down_rotate" -> Rotate(cam, right, FNeg(self.speed), forward)
          [] b = "up" ->
               MoveAdd(cam, VScale(VScale(cam.up, self.speed), speed_limit))
          [] b = "down" ->
               MoveSub(cam, VScale(VScale(cam.up, self.speed), speed_limit))

RECURSIVE RunBranches(_, _, _, _, _, _)
RunBranches(self, forward, forward_norm, forward_mag, cam, i) ==
    IF i > Len(Branches) THEN cam
    ELSE RunBranches(self, forward, forward_norm, forward_mag,
                     IF Guard(self, forward_mag, Branches[i])
                     THEN Body(self, forward, forward_norm, cam, Branches[i])
                     ELSE cam,
                     i + 1)

update_camera(self, cam) ==
    LET forward == VSub(cam.target, cam.eye)
        forward_norm == normalize(forward)
        forward_mag == magnitude(forward)
    IN  RunBranches(self, forward, forward_norm, forward_mag, cam, 1)

\* the flag the specification attaches to each recognized key, by the name of
\* the branch of update_camera that reads it
FlagOf(code) ==
    CASE code = "KeyW" -> "forward"
      [] code = "KeyS" -> "backward"
      [] code = "KeyA" -> "left"
      [] code = "KeyD" -> "right"
      [] code = "ArrowLeft" -> "left_rotate"
      [] code = "ArrowRight" -> "right_rotate"
      [] code = "ArrowUp" -> "up_rotate"
      [] code = "ArrowDown" -> "down_rotate"
      [] code = "KeyE" -> "up"
      [] code = "KeyQ" -> "down"
      [] OTHER -> "none"

BranchSet == {Branches[i] : i \in 1..Len(Branches)}
(***************************************************************************)
(* The state machine                                                       *)
(***************************************************************************)
\* the system after construction: a camera looking at a point 0.25 away and
\* a controller of either speed
Init ==
    /\ camera = NewCamera(PoseNear)
    /\ \E speed \in Speeds : controller = CameraControllerNew(speed)
    /\ camera_uniform = CameraUniformNew
    /\ ret = <<>>
    /\ keys = 0
    /\ frames = 0
    /\ uploads = 0
    /\ history = [speed |-> controller.speed,
                  latest |-> [b \in BranchSet |-> FALSE]]

\* the history after the event (code, is_pressed): an event for a recognized
\* key becomes the latest one of its flag
Record(h, code, is_pressed) ==
    IF code \in RecognizedKeys
    THEN [h EXCEPT !.latest[FlagOf(code)] = is_pressed]
    ELSE h

\* an input event that moves the camera at once
HandleKey_moves(code, is_pressed) ==
    /\ keys < MaxKeys
    /\ controller' = handle_key(controller, code, is_pressed).self
    /\ ret' = <<handle_key(controller, code, is_pressed).result>>
    /\ keys' = keys + 1
    /\ history' = Record(history, code, is_pressed)
    /\ camera' = update_camera(controller', camera)
    /\ UNCHANGED <<camera_uniform, frames, uploads>>

\* an input event: controller.handle_key(code, is_pressed); ret holds the
\* value the latest call returned
HandleKey(code, is_pressed) ==
    /\ keys < MaxKeys
    /\ controller' = handle_key(controller, code, is_pressed).self
    /\ ret' = <<handle_key(controller, code, is_pressed).result>>
    /\ keys' = keys + 1
    /\ history' = Record(history, code, is_pressed)
    /\ UNCHANGED <<camera, camera_uniform, frames, uploads>>

\* a frame that consumes the flags it acted on
UpdateCamera_releases ==
    /\ frames < MaxFrames
    /\ camera' = update_camera(controller, camera)
    /\ frames' = frames + 1
    /\ controller' = CameraControllerNew(controller.speed)
    /\ UNCHANGED <<camera_uniform, ret, keys, uploads, history>>

\* a frame: controller.update_camera(&mut camera)
UpdateCamera ==
    /\ frames < MaxFrames
    /\ camera' = update_camera(controller, camera)
    /\ frames' = frames + 1
    /\ UNCHANGED <<camera_uniform, controller, ret, keys, uploads, history>>

\* camera_uniform.update_view_proj(&camera)
UpdateViewProj ==
    /\ uploads < MaxUploads
    /\ camera_uniform' = update_view_proj(camera_uniform, camera)
    /\ uploads' = uploads + 1
    /\ UNCHANGED <<camera, controller, ret, keys, frames, history>>

Next ==
    \/ \E code \in KeyCode, is_pressed \in BOOLEAN : HandleKey(code, is_pressed)
    \/ UpdateCamera
    \/ UpdateViewProj

Spec == Init /\ [][Next]_vars

\* update_camera as a function of its inputs: every pose, every speed and
\* every combination of the ten flags, as key presses leave them
Held(self) == {i \in 1..Len(Branches) : Pressed(self, Branches[i])}

Controllers(speed) ==
    [speed : {speed},
     is_forward_pressed : BOOLEAN, is_backward_pressed : BOOLEAN,
     is_left_pressed : BOOLEAN, is_right_pressed : BOOLEAN,
     is_left_rotate_pressed : BOOLEAN, is_right_rotate_pressed : BOOLEAN,
     is_up_rotate_pressed : BOOLEAN, is_down_rotate_pressed : BOOLEAN,
     is_up_pressed : BOOLEAN, is_down_pressed : BOOLEAN]

InitFrame ==
    /\ \E pose \in Poses : camera = NewCamera(pose)
    /\ \E speed \in Speeds : controller \in Controllers(speed)
    /\ camera_uniform = CameraUniformNew
    /\ ret = IF Held(controller) = {} THEN <<>> ELSE <<TRUE>>
    /\ keys = Cardinality(Held(controller))
    /\ frames = 0
    /\ uploads = 0
    /\ history = [speed |-> controller.speed,
                  latest |-> [b \in BranchSet |-> Pressed(controller, b)]]

SpecFrame == InitFrame /\ [][UpdateCamera]_vars


(***************************************************************************)
(* Properties                                                              *)
(***************************************************************************)
HeldFlags(self) == {b \in BranchSet : Pressed(self, b)}

\* IEEE == on every component
VEq(a, b) == FEq(a.x, b.x) /\ FEq(a.y, b.y) /\ FEq(a.z, b.z)

\* a step is a handle_key call, a frame, or an update_view_proj call
KeyStep == keys' = keys + 1
FrameStep == frames' = frames + 1
UploadStep == uploads' = uploads + 1

Forward(cam) == VSub(cam.target, cam.eye)
ForwardMag(cam) == magnitude(Forward(cam))
\* the linear step along v: v * speed * speed_limit
Step(self, v) == VScale(VScale(v, self.speed), speed_limit)

InitialEyes == {pose[1] : pose \in Poses}
InitialTargets == {pose[2] : pose \in Poses}

\* C1: handle_key returns true exactly for the ten recognized codes, and
\* after a recognized code the flag of that key equals is_pressed.
C1_HandleKeyResult ==
    [][\A code \in KeyCode, is_pressed \in BOOLEAN :
          HandleKey(code, is_pressed) =>
             /\ ret' = <<code \in RecognizedKeys>>
             /\ code \in RecognizedKeys =>
                   Pressed(controller', FlagOf(code)) = is_pressed]_vars

\* a recognized press set its flag, and a later unrecognized code returned false
C1_Witness ==
    /\ ret = <<FALSE>>
    /\ HeldFlags(controller) = {"down"}

\* C2: a handle_key call changes at most the flag of its code and never the
\* speed; an unrecognized code changes nothing in the controller.
C2_HandleKeyFrame ==
    [][\A code \in KeyCode, is_pressed \in BOOLEAN :
          HandleKey(code, is_pressed) =>
             /\ controller'.speed = controller.speed
             /\ \A b \in BranchSet \ {FlagOf(code)} :
                   Pressed(controller', b) = Pressed(controller, b)
             /\ code \notin RecognizedKeys => controller' = controller]_vars

\* a second key was pressed while a first one stayed held
C2_Witness ==
    /\ keys = 2
    /\ HeldFlags(controller) = {"forward", "right_rotate"}

\* C3: after handle_key(code, is_pressed), the same call once more returns
\* the same value and leaves the controller as the first call left it.
C3_HandleKeyIdempotent ==
    [][\A code \in KeyCode, is_pressed \in BOOLEAN :
          HandleKey(code, is_pressed) =>
             handle_key(controller', code, is_pressed) =
                [self |-> controller', result |-> ret'[1]]]_vars

\* two calls have been made and one flag is held, as after two presses of A
C3_Witness ==
    /\ keys = 2
    /\ ret = <<TRUE>>
    /\ HeldFlags(controller) = {"left"}

\* C4: with no flag set a frame leaves eye and target as they are, at every
\* pose and speed and in every one of the frames of a run.
C4_NoFlagsFixedPoint ==
    [][FrameStep /\ HeldFlags(controller) = {} =>
          /\ camera'.eye = camera.eye
          /\ camera'.target = camera.target]_vars

\* the frames of a whole run went by on a freshly built controller
C4_Witness ==
    /\ frames = MaxFrames
    /\ \E speed \in Speeds : controller = CameraControllerNew(speed)
    /\ camera = NewCamera(PoseFar)

\* C5 as stated: with only forward set and |target - eye| > speed, eye and
\* target both move by normalize(target - eye) * speed * 0.05 and the vector
\* target - eye is the same after the frame as before it.
C5_ForwardKeepsOffset ==
    [][(/\ FrameStep
        /\ HeldFlags(controller) = {"forward"}
        /\ FGt(ForwardMag(camera), controller.speed)) =>
          LET d == Step(controller, normalize(Forward(camera)))
          IN  /\ camera'.eye = VAdd(camera.eye, d)
              /\ camera'.target = VAdd(camera.target, d)
              /\ VEq(Forward(camera'), Forward(camera))]_vars

\* C5 amended: with only forward set and |target - eye| > speed, eye and
\* target both move by the same f32 vector normalize(target - eye) * speed *
\* 0.05, each sum rounded to f32.
C5_ForwardTranslates ==
    [][(/\ FrameStep
        /\ HeldFlags(controller) = {"forward"}
        /\ FGt(ForwardMag(camera), controller.speed)) =>
          LET d == Step(controller, normalize(Forward(camera)))
          IN  /\ camera'.eye = VAdd(camera.eye, d)
              /\ camera'.target = VAdd(camera.target, d)]_vars

\* a frame has moved a camera that is further than speed from its target
C5_Witness ==
    /\ frames = 1
    /\ HeldFlags(controller) = {"forward"}
    /\ FGt(ForwardMag(camera), controller.speed)
    /\ camera.eye \notin InitialEyes
    /\ camera.target \notin InitialTargets

\* C6: with only forward set and |target - eye| <= speed, the boundary
\* included, a frame moves neither eye nor target.
C6_ForwardBlocked ==
    [][(/\ FrameStep
        /\ HeldFlags(controller) = {"forward"}
        /\ FLe(ForwardMag(camera), controller.speed)) =>
          camera' = camera]_vars

\* frames went by at the boundary |target - eye| = speed
C6_Witness ==
    /\ frames = 2
    /\ HeldFlags(controller) = {"forward"}
    /\ camera = NewCamera(PoseNear)
    /\ ForwardMag(camera) = controller.speed

\* C7 as stated: with strafe-left and strafe-right both set and nothing
\* else, eye and target after the frame equal eye and target before it.
C7_StrafesCancel ==
    [][FrameStep /\ HeldFlags(controller) = {"left", "right"} =>
          /\ VEq(camera'.eye, camera.eye)
          /\ VEq(camera'.target, camera.target)]_vars

\* C7 amended: with strafe-left and strafe-right both set and nothing else,
\* eye and target are each decreased and then increased by the same f32
\* vector right * speed * 0.05, right taken from the forward vector of the
\* start of the call: (p - d) + d in f32 arithmetic.
C7_StrafesSameStep ==
    [][FrameStep /\ HeldFlags(controller) = {"left", "right"} =>
          LET d == Step(controller,
                        cross(normalize(Forward(camera)), camera.up))
          IN  /\ camera'.eye = VAdd(VSub(camera.eye, d), d)
              /\ camera'.target = VAdd(VSub(camera.target, d), d)]_vars

\* a frame ran with both strafe keys held and did not bring eye back
C7_Witness ==
    /\ frames = 1
    /\ HeldFlags(controller) = {"left", "right"}
    /\ camera.target \in InitialTargets
    /\ camera.eye \notin InitialEyes

\* C8 as stated: with only yaw-left set, eye stays, target becomes
\* eye + R(forward) for the rotation R by +speed degrees about up, and
\* |target - eye| is the same after the frame as before it.
C8_YawKeepsMagnitude ==
    [][FrameStep /\ HeldFlags(controller) = {"left_rotate"} =>
          LET R == from_axis_angle(camera.up, controller.speed)
          IN  /\ camera'.eye = camera.eye
              /\ camera'.target =
                    VAdd(camera.eye, rotate_vector(R, Forward(camera)))
              /\ FEq(ForwardMag(camera'), ForwardMag(camera))]_vars

\* C8 amended: with only yaw-left set, eye stays and target becomes
\* eye + R(forward), R the quaternion rotation by +speed degrees about up
\* applied in f32.
C8_YawPivotsOnEye ==
    [][FrameStep /\ HeldFlags(controller) = {"left_rotate"} =>
          LET R == from_axis_angle(camera.up, controller.speed)
          IN  /\ camera'.eye = camera.eye
              /\ camera'.target =
                    VAdd(camera.eye, rotate_vector(R, Forward(camera)))]_vars

\* a yaw-left frame has turned the target about an eye that stayed
C8_Witness ==
    /\ frames = 1
    /\ HeldFlags(controller) = {"left_rotate"}
    /\ camera.eye \in InitialEyes
    /\ camera.target \notin InitialTargets

\* the branches the specification has a frame apply: the flags that are set,
\* forward only above the magnitude threshold
Applies(self, cam, b) ==
    /\ Pressed(self, b)
    /\ b = "forward" => FGt(ForwardMag(cam), self.speed)

C10_CameraOnlyMovedByFrames ==
    [][KeyStep \/ UploadStep => camera' = camera]_vars

\* keys, frames and an upload have all happened and the camera has moved
C10_Witness ==
    /\ keys = 2
    /\ frames = 2
    /\ uploads = 1
    /\ camera.eye \notin InitialEyes

\* contents a uniform may hold before an upload: the identity of new(), what
\* it holds now, and the matrix of another pose
PriorUniforms ==
    {CameraUniformNew, camera_uniform,
     update_view_proj(CameraUniformNew, NewCamera(PoseFar))}

\* C11: view_proj is the identity in every state before the first
\* update_view_proj call; an update_view_proj call leaves in it the
\* build_view_projection_matrix of the camera's current pose, and the same
\* for every content the uniform held before.
C11_UniformDerived ==
    /\ [](uploads = 0 => camera_uniform.view_proj = Into(Identity))
    /\ [][UploadStep =>
            /\ camera_uniform'.view_proj =
                  Into(build_view_projection_matrix(camera'))
            /\ \A u \in PriorUniforms :
                  update_view_proj(u, camera) = camera_uniform']_vars

\* an upload after two frames that moved the camera: the uniform left the
\* identity and holds the matrix of the moved pose
C11_Witness ==
    /\ uploads = 1
    /\ frames = 2
    /\ camera.eye \notin InitialEyes
    /\ camera_uniform # CameraUniformNew
    /\ camera_uniform.view_proj = Into(build_view_projection_matrix(camera))

\* IEEE == on every component of a Vector4
V4Eq(a, b) == FEq(a.x, b.x) /\ FEq(a.y, b.y) /\ FEq(a.z, b.z) /\ FEq(a.w, b.w)

View(cam) == look_at_rh(cam.eye, cam.target, cam.up)
Projection(cam) == perspective(cam.fovy, cam.aspect, cam.znear, cam.zfar)

\* clip vectors of a camera: the columns of Projection x View, and each of
\* them with its depth put on the near plane (z = -w) and the far plane (z = w)
ClipColumns(cam) ==
    {MatMul(Projection(cam), View(cam))[j] : j \in 1..4}
ClipVectors(cam) ==
    ClipColumns(cam)
        \cup {Vec4(c.x, c.y, FNeg(c.w), c.w) : c \in ClipColumns(cam)}
        \cup {Vec4(c.x, c.y, c.w, c.w) : c \in ClipColumns(cam)}

\* Matrix4 * Vector4 with the correction matrix on the left
Correct(v) == MatMulCol(OPENGL_TO_WGPU_MATRIX, v)

\* C12: the matrix update_view_proj stores is (Correction x Projection) x
\* View, and Correction maps a clip vector (x, y, z, w) to
\* (x, y, 0.5*z + 0.5*w, w): z = -w goes to 0 and z = w goes to w.
C12_CorrectionProjectionView ==
    [][UploadStep =>
          /\ camera_uniform'.view_proj =
                Into(MatMul(MatMul(OPENGL_TO_WGPU_MATRIX, Projection(camera)),
                            View(camera)))
          /\ \A v \in ClipVectors(camera) :
                /\ V4Eq(Correct(v),
                        Vec4(v.x, v.y, FAdd(FMul(Half, v.z), FMul(Half, v.w)),
                             v.w))
                /\ v.z = FNeg(v.w) => FEq(Correct(v).z, Zero32)
                /\ v.z = v.w => FEq(Correct(v).z, v.w)]_vars

\* the matrix of a moved camera was stored, and it is not the product of the
\* same factors in the opposite order
C12_Witness ==
    /\ uploads = 1
    /\ frames >= 1
    /\ camera.eye \notin InitialEyes
    /\ camera_uniform.view_proj = Into(build_view_projection_matrix(camera))
    /\ camera_uniform.view_proj #
          Into(MatMul(MatMul(View(camera), Projection(camera)),
                      OPENGL_TO_WGPU_MATRIX))

\* the step along the viewing direction of cam
ForwardStep(self, cam) == Step(self, normalize(Forward(cam)))

\* C13 as stated: backward alone subtracts normalize(target - eye) * speed *
\* 0.05 from eye and target at every |target - eye|; forward with backward
\* leaves eye and target where they were when |target - eye| > speed, and
\* makes one backward step when |target - eye| <= speed.
C13_BackwardCancelsForward ==
    [][FrameStep =>
          LET d == ForwardStep(controller, camera)
          IN  /\ HeldFlags(controller) = {"backward"} =>
                    /\ camera'.eye = VSub(camera.eye, d)
                    /\ camera'.target = VSub(camera.target, d)
              /\ (/\ HeldFlags(controller) = {"forward", "backward"}
                  /\ FGt(ForwardMag(camera), controller.speed)) =>
                    /\ VEq(camera'.eye, camera.eye)
                    /\ VEq(camera'.target, camera.target)
              /\ (/\ HeldFlags(controller) = {"forward", "backward"}
                  /\ FLe(ForwardMag(camera), controller.speed)) =>
                    /\ camera'.eye = VSub(camera.eye, d)
                    /\ camera'.target = VSub(camera.target, d)]_vars

\* C13 amended: backward alone subtracts the f32 vector d = normalize(target
\* - eye) * speed * 0.05 from eye and target at every |target - eye|; forward
\* with backward leaves each of them as (p + d) - d in f32 arithmetic when
\* |target - eye| > speed, and as p - d when |target - eye| <= speed.
C13_BackwardUnguarded ==
    [][FrameStep =>
          LET d == ForwardStep(controller, camera)
          IN  /\ HeldFlags(controller) = {"backward"} =>
                    /\ camera'.eye = VSub(camera.eye, d)
                    /\ camera'.target = VSub(camera.target, d)
              /\ (/\ HeldFlags(controller) = {"forward", "backward"}
                  /\ FGt(ForwardMag(camera), controller.speed)) =>
                    /\ camera'.eye = VSub(VAdd(camera.eye, d), d)
                    /\ camera'.target = VSub(VAdd(camera.target, d), d)
              /\ (/\ HeldFlags(controller) = {"forward", "backward"}
                  /\ FLe(ForwardMag(camera), controller.speed)) =>
                    /\ camera'.eye = VSub(camera.eye, d)
                    /\ camera'.target = VSub(camera.target, d)]_vars

\* with forward and backward both held, a frame at |target - eye| <= speed has
\* made the backward step alone
C13_Witness ==
    /\ frames = 1
    /\ HeldFlags(controller) = {"forward", "backward"}
    /\ \E pose \in Poses :
          /\ FLe(ForwardMag(NewCamera(pose)), controller.speed)
          /\ camera = MoveSub(NewCamera(pose),
                              ForwardStep(controller, NewCamera(pose)))
          /\ camera.eye # pose[1]

RotationFlags == {"left_rotate", "right_rotate", "up_rotate", "down_rotate"}
HeldRotations(self) == HeldFlags(self) \cap RotationFlags

\* the rotation branch that runs last among those whose flag is set
LastRotation(self) ==
    Branches[CHOOSE i \in 1..Len(Branches) :
                /\ Branches[i] \in HeldRotations(self)
                /\ \A j \in (i + 1)..Len(Branches) :
                      Branches[j] \notin HeldRotations(self)]

\* the controller with every rotation flag but the last active one cleared
OnlyLastRotation(self) ==
    [self EXCEPT
        !.is_left_rotate_pressed = LastRotation(self) = "left_rotate",
        !.is_right_rotate_pressed = LastRotation(self) = "right_rotate",
        !.is_up_rotate_pressed = LastRotation(self) = "up_rotate",
        !.is_down_rotate_pressed = LastRotation(self) = "down_rotate"]

\* the quaternion of rotation branch b for the pose cam at the start of a call
RotationOf(self, cam, b) ==
    from_axis_angle(
        IF b \in {"left_rotate", "right_rotate"} THEN cam.up
        ELSE cross(normalize(Forward(cam)), cam.up),
        IF b \in {"left_rotate", "up_rotate"} THEN self.speed
        ELSE FNeg(self.speed))

\* C14 as stated: when several rotation flags are set, target - eye after the
\* frame equals the forward vector of the start of the call rotated by the
\* last active rotation branch alone.
C14_LastRotationOffset ==
    [][(/\ FrameStep
        /\ Cardinality(HeldRotations(controller)) >= 2
        /\ HeldFlags(controller) \subseteq RotationFlags) =>
          VEq(Forward(camera'),
              rotate_vector(RotationOf(controller, camera,
                                       LastRotation(controller)),
                            Forward(camera)))]_vars

\* C14 amended: when rotation flags are set, the frame leaves the camera
\* exactly as it would with only the last active rotation flag among them
\* (the other flags as they are), and with no translation flag set eye stays
\* and target is eye + R(forward) in f32, R the rotation of that last branch
\* and forward the vector of the start of the call.
C14_LastRotationWins ==
    [][FrameStep /\ HeldRotations(controller) # {} =>
          /\ camera' = update_camera(OnlyLastRotation(controller), camera)
          /\ HeldFlags(controller) \subseteq RotationFlags =>
                /\ camera'.eye = camera.eye
                /\ camera'.target =
                      VAdd(camera.eye,
                           rotate_vector(RotationOf(controller, camera,
                                                    LastRotation(controller)),
                                         Forward(camera)))]_vars

\* a frame ran with yaw-left and yaw-right both held and turned the target as
\* yaw-right alone does
C14_Witness ==
    /\ frames = 1
    /\ HeldFlags(controller) = {"left_rotate", "right_rotate"}
    /\ camera.eye \in InitialEyes
    /\ camera.target \notin InitialTargets
    /\ \E pose \in Poses :
          camera = Rotate(NewCamera(pose), NewCamera(pose).up,
                          FNeg(controller.speed), Forward(NewCamera(pose)))

\* the controller with its four rotation flags cleared
NoRotation(self) ==
    [self EXCEPT !.is_left_rotate_pressed = FALSE,
                 !.is_right_rotate_pressed = FALSE,
                 !.is_up_rotate_pressed = FALSE,
                 !.is_down_rotate_pressed = FALSE]

\* the displacement of translation branch b, from the forward vector and up
\* of the pose cam at the start of a call
Displacement(self, cam, b) ==
    CASE b = "forward" -> ForwardStep(self, cam)
      [] b = "backward" -> VNeg(ForwardStep(self, cam))
      [] b = "left" ->
           VNeg(Step(self, cross(normalize(Forward(cam)), cam.up)))
      [] b = "right" -> Step(self, cross(normalize(Forward(cam)), cam.up))
      [] b = "up" -> Step(self, cam.up)
      [] b = "down" -> VNeg(Step(self, cam.up))

TranslationFlags == BranchSet \ RotationFlags

\* the active translation displacements of the first i branches, added up
RECURSIVE SumDisplacements(_, _, _)
SumDisplacements(self, cam, i) ==
    IF i = 0 THEN ZeroVec
    ELSE IF Branches[i] \in TranslationFlags /\ Applies(self, cam, Branches[i])
    THEN VAdd(SumDisplacements(self, cam, i - 1),
              Displacement(self, cam, Branches[i]))
    ELSE SumDisplacements(self, cam, i - 1)

\* eye after the active translations of the first i branches, one f32
\* addition after the other
RECURSIVE EyeAfter(_, _, _)
EyeAfter(self, cam, i) ==
    IF i = 0 THEN cam.eye
    ELSE IF Branches[i] \in TranslationFlags /\ Applies(self, cam, Branches[i])
    THEN VAdd(EyeAfter(self, cam, i - 1), Displacement(self, cam, Branches[i]))
    ELSE EyeAfter(self, cam, i - 1)

\* C15 as stated: for every combination of the flags, eye after the frame
\* minus eye before it equals the sum of the displacements of the active
\* translation flags.
C15_EyeDisplacementIsSum ==
    [][FrameStep =>
          VEq(VSub(camera'.eye, camera.eye),
              SumDisplacements(controller, camera, Len(Branches)))]_vars

\* C15 amended: for every combination of the flags, eye after the frame is
\* eye before it with the displacements of the active translation flags
\* added one after the other in f32, each taken from the forward vector and
\* up of the start of the call, and it is the eye the same frame gives with
\* every rotation flag cleared.
C15_EyeTranslatesOnly ==
    [][FrameStep =>
          /\ camera'.eye = EyeAfter(controller, camera, Len(Branches))
          /\ camera'.eye =
                update_camera(NoRotation(controller), camera).eye]_vars

\* a frame with two translations and a rotation held moved eye as the
\* translations alone do, and the target elsewhere
C15_Witness ==
    /\ frames = 1
    /\ HeldFlags(controller) = {"backward", "right", "up_rotate", "up"}
    /\ camera.eye \notin InitialEyes
    /\ \E pose \in Poses :
          LET still == update_camera(NoRotation(controller), NewCamera(pose))
          IN  /\ camera.eye = still.eye
              /\ camera.target # still.target

\* C16: a frame changes no field of the camera but eye and target and nothing
\* in the controller; a flag that is set is cleared only by a handle_key call
\* for its own key with is_pressed = false.
C16_FrameTouchesEyeAndTarget ==
    [][/\ FrameStep =>
             /\ camera' = [camera EXCEPT !.eye = camera'.eye,
                                         !.target = camera'.target]
             /\ controller' = controller
       /\ \A b \in BranchSet :
             Pressed(controller, b) /\ ~Pressed(controller', b) =>
                \E code \in RecognizedKeys :
                   /\ FlagOf(code) = b
                   /\ HandleKey(code, FALSE)]_vars

\* a key pressed once is still held after two frames that moved the camera,
\* whose other fields are those of construction
C16_Witness ==
    /\ frames = 2
    /\ keys = 1
    /\ HeldFlags(controller) = {"right"}
    /\ camera.eye \notin InitialEyes
    /\ camera.target \notin InitialTargets
    /\ camera = [NewCamera(PoseNear) EXCEPT !.eye = camera.eye,
                                             !.target = camera.target]

\* the controller the recorded events determine
FromEvents(h) ==
    [speed |-> h.speed,
     is_forward_pressed |-> h.latest["forward"],
     is_backward_pressed |-> h.latest["backward"],
     is_left_pressed |-> h.latest["left"],
     is_right_pressed |-> h.latest["right"],
     is_left_rotate_pressed |-> h.latest["left_rotate"],
     is_right_rotate_pressed |-> h.latest["right_rotate"],
     is_up_rotate_pressed |-> h.latest["up_rotate"],
     is_down_rotate_pressed |-> h.latest["down_rotate"],
     is_up_pressed |-> h.latest["up"],
     is_down_pressed |-> h.latest["down"]]

\* C17: in every state each flag equals is_pressed of the latest handle_key
\* event for its key (false when there has been none) and speed equals the
\* value given to new(); a frame acts on the camera as the flags of the
\* events delivered before it determine.
C17_FlagsFollowEvents ==
    /\ [](/\ \A b \in BranchSet : Pressed(controller, b) = history.latest[b]
          /\ controller.speed = history.speed)
    /\ [][FrameStep =>
            camera' = update_camera(FromEvents(history), camera)]_vars

\* a key was pressed, a frame moved the camera, the key was released, and a
\* later frame found no flag set
C17_Witness ==
    /\ keys = 2
    /\ frames = 2
    /\ ret = <<TRUE>>
    /\ HeldFlags(controller) = {}
    /\ \A b \in BranchSet : ~history.latest[b]
    /\ camera.eye \notin InitialEyes
    /\ camera = update_camera(CameraControllerNew(controller.speed), camera)

\* C18: from every initial pose (each has target # eye and up not parallel
\* to target - eye), target # eye holds in every state that frames reach,
\* for every flag combination.
C18_TargetNeverEye == ~VEq(camera.target, camera.eye)

\* the forward guard of update_camera on the pose cam
ForwardAllowed(self, cam) == FGt(ForwardMag(cam), self.speed)

=============================================================================
